---- MODULE Spec2Model ----
(***************************************************************************)
(* Model of networkx/algorithms/tree/recognition.py: the four recognition  *)
(* predicates is_forest, is_tree, is_branching and is_arborescence, run    *)
(* step by step on graphs built through the graph API (Graph, DiGraph,     *)
(* MultiGraph, MultiDiGraph).                                              *)
(*                                                                         *)
(* A graph has nodes 1..n and an edge multiplicity mult[<<u, v>>]; an       *)
(* undirected graph keeps the edge u-v under the key <<min, max>>.          *)
(* ret records, for the current graph, the outcome of the last finished    *)
(* call of each predicate; changing the graph forgets the outcomes.        *)
(***************************************************************************)
EXTENDS Integers, FiniteSets, Sequences, TLC

MaxNodes == 3
MaxEdges == 3

VARIABLES n, mult, directed, multigraph, pc, top, comps, ret, queried

vars == <<n, mult, directed, multigraph, pc, top, comps, ret, queried>>

Fns == {"is_forest", "is_tree", "is_branching", "is_arborescence"}

NetworkXPointlessConcept == "NetworkXPointlessConcept"
NetworkXNotImplemented == "NetworkXNotImplemented"

Pairs == (1..MaxNodes) \X (1..MaxNodes)

NoReturn == [f \in Fns |-> "none"]

----------------------------------------------------------------------------
(* The graph collaborator: counts, degrees, components, connectivity.      *)

RECURSIVE SumOver(_, _)
SumOver(m, S) ==
    IF S = {} THEN 0
    ELSE LET k == CHOOSE x \in S : TRUE IN m[k] + SumOver(m, S \ {k})

Key(u, v) == IF directed \/ u <= v THEN <<u, v>> ELSE <<v, u>>

nodes == 1..n

number_of_nodes == n

number_of_edges == SumOver(mult, Pairs)

is_directed == directed

in_degree(v) == SumOver(mult, {k \in Pairs : k[2] = v})

RECURSIVE MaxOf(_)
MaxOf(S) ==
    LET x == CHOOSE y \in S : TRUE
    IN IF S = {x} THEN x
       ELSE LET r == MaxOf(S \ {x}) IN IF x > r THEN x ELSE r

max_in_degree == MaxOf({in_degree(v) : v \in nodes})

\* nodes joined to S by edges of m, direction ignored
RECURSIVE Reach(_, _)
Reach(m, S) ==
    LET T == S \cup {v \in nodes : \E u \in S : m[<<u, v>>] > 0 \/ m[<<v, u>>] > 0}
    IN IF T = S THEN S ELSE Reach(m, T)

RECURSIVE component_seq(_)
component_seq(rest) ==
    IF rest = {} THEN << >>
    ELSE LET v == CHOOSE x \in rest : \A y \in rest : x <= y
             c == Reach(mult, {v})
         IN <<c>> \o component_seq(rest \ c)

\* connected_component_subgraphs / weakly_connected_component_subgraphs:
\* both ignore direction; each component is the induced subgraph on c
components == component_seq(nodes)

component_number_of_nodes(c) == Cardinality(c)

component_number_of_edges(c) == SumOver(mult, {k \in Pairs : k[1] \in c /\ k[2] \in c})

\* is_connected / is_weakly_connected, on a non-empty graph
is_connected == Reach(mult, {1}) = nodes

\* the test of the decorator not_implemented_for('undirected')
not_implemented_for_undirected == ~is_directed

Bool(b) == IF b THEN "True" ELSE "False"

----------------------------------------------------------------------------
(* Building the graph.                                                     *)

Init ==
    /\ n = 0
    /\ mult = [k \in Pairs |-> 0]
    /\ directed \in BOOLEAN
    /\ multigraph \in BOOLEAN
    /\ pc = "idle"
    /\ top = "none"
    /\ comps = << >>
    /\ ret = NoReturn
    /\ queried = FALSE

add_node ==
    /\ pc = "idle"
    /\ n < MaxNodes
    /\ n' = n + 1
    /\ ret' = NoReturn
    /\ queried' = FALSE
    /\ UNCHANGED <<mult, directed, multigraph, pc, top, comps>>

add_edge ==
    /\ pc = "idle"
    /\ number_of_edges < MaxEdges
    /\ \E u \in nodes, v \in nodes :
          mult' = [mult EXCEPT ![Key(u, v)] = IF multigraph THEN @ + 1 ELSE 1]
    /\ ret' = NoReturn
    /\ queried' = FALSE
    /\ UNCHANGED <<n, directed, multigraph, pc, top, comps>>

----------------------------------------------------------------------------
(* Calls, returns and exceptions.                                          *)

Call ==
    /\ pc = "idle"
    /\ \E f \in Fns : top' = f /\ pc' = f
    /\ queried' = FALSE
    /\ UNCHANGED <<n, mult, directed, multigraph, comps, ret>>

\* where control goes when f returns: to the caller of a nested call
After(f) ==
    IF top = f THEN "idle"
    ELSE IF top = "is_branching" THEN "is_branching_139" ELSE "is_arborescence_105"

Return(f, v) ==
    /\ ret' = [ret EXCEPT ![f] = v]
    /\ pc' = After(f)
    /\ top' = IF top = f THEN "none" ELSE top
    /\ comps' = << >>

\* nothing catches: the exception leaves f and the caller of f
Raise(f, e) ==
    /\ ret' = [g \in Fns |-> IF g \in {f, top} THEN e ELSE ret[g]]
    /\ pc' = "idle"
    /\ top' = "none"
    /\ comps' = << >>

----------------------------------------------------------------------------
(* is_forest                                                               *)

is_forest ==
    /\ pc = "is_forest"
    /\ IF number_of_nodes = 0
       THEN Raise("is_forest", NetworkXPointlessConcept)
       ELSE /\ comps' = components
            /\ pc' = "is_forest_186"
            /\ UNCHANGED <<top, ret>>
    /\ UNCHANGED <<n, mult, directed, multigraph, queried>>

\* slip: a component is compared with its node count, not node count - 1
is_forest_186_offbyone ==
    /\ pc = "is_forest_186"
    /\ IF comps = << >>
       THEN Return("is_forest", "True")
       ELSE LET component == Head(comps)
            IN IF component_number_of_edges(component)
                    # component_number_of_nodes(component)
               THEN Return("is_forest", "False")
               ELSE /\ comps' = Tail(comps)
                    /\ UNCHANGED <<pc, top, ret>>
    /\ UNCHANGED <<n, mult, directed, multigraph, queried>>

\* slip: return True inside the loop, so only the first component is tested
is_forest_186_first ==
    /\ pc = "is_forest_186"
    /\ IF comps = << >>
       THEN Return("is_forest", "True")
       ELSE LET component == Head(comps)
            IN IF component_number_of_edges(component)
                    # component_number_of_nodes(component) - 1
               THEN Return("is_forest", "False")
               ELSE Return("is_forest", "True")
    /\ UNCHANGED <<n, mult, directed, multigraph, queried>>

is_forest_186 ==
    /\ pc = "is_forest_186"
    /\ IF comps = << >>
       THEN Return("is_forest", "True")
       ELSE LET component == Head(comps)
            IN IF component_number_of_edges(component)
                    # component_number_of_nodes(component) - 1
               THEN Return("is_forest", "False")
               ELSE /\ comps' = Tail(comps)
                    /\ UNCHANGED <<pc, top, ret>>
    /\ UNCHANGED <<n, mult, directed, multigraph, queried>>

----------------------------------------------------------------------------
(* is_tree                                                                 *)

\* slip: the empty graph is not rejected
is_tree_noraise ==
    /\ pc = "is_tree"
    /\ pc' = "is_tree_234"
    /\ UNCHANGED <<top, ret, comps>>
    /\ UNCHANGED <<n, mult, directed, multigraph, queried>>

is_tree ==
    /\ pc = "is_tree"
    /\ IF number_of_nodes = 0
       THEN Raise("is_tree", NetworkXPointlessConcept)
       ELSE /\ pc' = "is_tree_234"
            /\ UNCHANGED <<top, ret, comps>>
    /\ UNCHANGED <<n, mult, directed, multigraph, queried>>

\* slip: the edge count is compared with n, not n - 1
is_tree_234_offbyone ==
    /\ pc = "is_tree_234"
    /\ IF number_of_edges # n
       THEN Return("is_tree", "False")
       ELSE /\ pc' = "is_tree_237"
            /\ UNCHANGED <<top, ret, comps>>
    /\ UNCHANGED <<n, mult, directed, multigraph, queried>>

\* slip: connectivity is computed before the edge count is tested
is_tree_234_eager ==
    /\ pc = "is_tree_234"
    /\ queried' = TRUE
    /\ IF number_of_edges # n - 1
       THEN Return("is_tree", "False")
       ELSE Return("is_tree", Bool(is_connected))
    /\ UNCHANGED <<n, mult, directed, multigraph>>

is_tree_234 ==
    /\ pc = "is_tree_234"
    /\ IF number_of_edges # n - 1
       THEN Return("is_tree", "False")
       ELSE /\ pc' = "is_tree_237"
            /\ UNCHANGED <<top, ret, comps>>
    /\ UNCHANGED <<n, mult, directed, multigraph, queried>>

\* slip: the connectivity test is dropped
is_tree_237_unconnected ==
    /\ pc = "is_tree_237"
    /\ queried' = FALSE
    /\ Return("is_tree", "True")
    /\ UNCHANGED <<n, mult, directed, multigraph>>

is_tree_237 ==
    /\ pc = "is_tree_237"
    /\ queried' = TRUE
    /\ Return("is_tree", Bool(is_connected))
    /\ UNCHANGED <<n, mult, directed, multigraph>>

----------------------------------------------------------------------------
(* is_branching                                                            *)

is_branching ==
    /\ pc = "is_branching"
    /\ IF not_implemented_for_undirected
       THEN Raise("is_branching", NetworkXNotImplemented)
       ELSE /\ pc' = "is_forest"
            /\ UNCHANGED <<top, ret, comps>>
    /\ UNCHANGED <<n, mult, directed, multigraph, queried>>

\* slip: the in-degree test is dropped
is_branching_139_noindegree ==
    /\ pc = "is_branching_139"
    /\ IF ret["is_forest"] # "True"
       THEN Return("is_branching", "False")
       ELSE Return("is_branching", "True")
    /\ UNCHANGED <<n, mult, directed, multigraph, queried>>

\* slip: the in-degree bound is 0 instead of 1
is_branching_139_strict ==
    /\ pc = "is_branching_139"
    /\ IF ret["is_forest"] # "True"
       THEN Return("is_branching", "False")
       ELSE IF max_in_degree > 0
            THEN Return("is_branching", "False")
            ELSE Return("is_branching", "True")
    /\ UNCHANGED <<n, mult, directed, multigraph, queried>>

is_branching_139 ==
    /\ pc = "is_branching_139"
    /\ IF ret["is_forest"] # "True"
       THEN Return("is_branching", "False")
       ELSE IF max_in_degree > 1
            THEN Return("is_branching", "False")
            ELSE Return("is_branching", "True")
    /\ UNCHANGED <<n, mult, directed, multigraph, queried>>

----------------------------------------------------------------------------
(* is_arborescence                                                         *)

is_arborescence ==
    /\ pc = "is_arborescence"
    /\ IF not_implemented_for_undirected
       THEN Raise("is_arborescence", NetworkXNotImplemented)
       ELSE /\ pc' = "is_tree"
            /\ UNCHANGED <<top, ret, comps>>
    /\ UNCHANGED <<n, mult, directed, multigraph, queried>>

\* slip: the in-degree bound is 2 instead of 1
is_arborescence_105_loose ==
    /\ pc = "is_arborescence_105"
    /\ IF ret["is_tree"] # "True"
       THEN Return("is_arborescence", "False")
       ELSE IF max_in_degree > 2
            THEN Return("is_arborescence", "False")
            ELSE Return("is_arborescence", "True")
    /\ UNCHANGED <<n, mult, directed, multigraph, queried>>

\* slip: the in-degree test is dropped
is_arborescence_105_noindegree ==
    /\ pc = "is_arborescence_105"
    /\ IF ret["is_tree"] # "True"
       THEN Return("is_arborescence", "False")
       ELSE Return("is_arborescence", "True")
    /\ UNCHANGED <<n, mult, directed, multigraph, queried>>

is_arborescence_105 ==
    /\ pc = "is_arborescence_105"
    /\ IF ret["is_tree"] # "True"
       THEN Return("is_arborescence", "False")
       ELSE IF max_in_degree > 1
            THEN Return("is_arborescence", "False")
            ELSE Return("is_arborescence", "True")
    /\ UNCHANGED <<n, mult, directed, multigraph, queried>>

----------------------------------------------------------------------------

Next ==
    \/ add_node
    \/ add_edge
    \/ Call
    \/ is_forest
    \/ is_forest_186
    \/ is_tree
    \/ is_tree_234
    \/ is_tree_237
    \/ is_branching
    \/ is_branching_139
    \/ is_arborescence
    \/ is_arborescence_105

Spec == Init /\ [][Next]_vars

TypeOK ==
    /\ n \in 0..MaxNodes
    /\ mult \in [Pairs -> 0..MaxEdges]
    /\ pc \in {"idle", "is_forest", "is_forest_186", "is_tree", "is_tree_234",
               "is_tree_237", "is_branching", "is_branching_139",
               "is_arborescence", "is_arborescence_105"}
    /\ top \in Fns \cup {"none"}
    /\ ret \in [Fns -> {"none", "True", "False",
                        NetworkXPointlessConcept, NetworkXNotImplemented}]
    /\ queried \in BOOLEAN

----------------------------------------------------------------------------
(* Graph-theoretic notions the properties are stated in.                   *)

Returned(f) == ret[f] \in {"True", "False"}

Finished(f) == ret[f] # "none"

\* the connected components of the underlying undirected graph
ComponentSet == {Reach(mult, {v}) : v \in nodes}

EdgesWithin(c) == SumOver(mult, c \X c)

EveryComponentIsTree == \A c \in ComponentSet : EdgesWithin(c) = Cardinality(c) - 1

Connected == \A u \in nodes, v \in nodes : v \in Reach(mult, {u})

\* an edge lies on an undirected cycle iff its ends stay joined once one
\* copy of it is removed; a self-loop, a parallel pair and an antiparallel
\* pair are the cycles of length 1 and 2 of the multigraph
OnCycle(k) ==
    /\ mult[k] > 0
    /\ k[2] \in Reach([mult EXCEPT ![k] = @ - 1], {k[1]})

HasUndirectedCycle == \E k \in Pairs : OnCycle(k)

RECURSIVE Descendants(_)
Descendants(S) ==
    LET T == S \cup {v \in nodes : \E u \in S : mult[<<u, v>>] > 0}
    IN IF T = S THEN S ELSE Descendants(T)

Roots == {v \in nodes : in_degree(v) = 0}

----------------------------------------------------------------------------
(* Properties.                                                             *)

\* C1: on a non-empty graph is_forest returns a boolean, and it is True
\* exactly when every (weakly) connected component has nodes - 1 edges.
C1_ForestIffComponents ==
    (n > 0 /\ Finished("is_forest")) =>
        ret["is_forest"] = Bool(EveryComponentIsTree)

C1_Witness ==
    /\ n >= 2
    /\ number_of_edges = 0
    /\ ret["is_forest"] = "True"

\* C2: on a non-empty graph is_tree returns a boolean, and it is True
\* exactly when the graph has n - 1 edges and is (weakly) connected.
C2_TreeIffCountAndConnected ==
    (n > 0 /\ Finished("is_tree")) =>
        ret["is_tree"] = Bool(number_of_edges = n - 1 /\ Connected)

C2_Witness ==
    /\ n = 1
    /\ number_of_edges = 0
    /\ ret["is_tree"] = "True"

\* C3 as stated: on a zero-node graph every predicate raises
\* NetworkXPointlessConcept, whether the graph is directed or not.
C3_EmptyAlwaysPointless ==
    n = 0 => \A f \in Fns : Finished(f) => ret[f] = NetworkXPointlessConcept

\* C3 amended: on a zero-node graph no predicate returns a boolean;
\* is_forest and is_tree raise NetworkXPointlessConcept, and so do
\* is_branching and is_arborescence on a directed graph, while on an
\* undirected graph these two raise NetworkXNotImplemented.
C3_EmptyRaises ==
    n = 0 =>
        \A f \in Fns : Finished(f) =>
            ret[f] = IF f \in {"is_branching", "is_arborescence"} /\ ~directed
                     THEN NetworkXNotImplemented
                     ELSE NetworkXPointlessConcept

C3_Witness ==
    /\ n = 0
    /\ ~directed
    /\ ret["is_forest"] = NetworkXPointlessConcept
    /\ ret["is_tree"] = NetworkXPointlessConcept
    /\ ret["is_branching"] = NetworkXNotImplemented

\* C4: on a non-empty directed graph is_branching returns is_forest(G) and
\* max in-degree <= 1; on an undirected graph it raises
\* NetworkXNotImplemented.
C4_BranchingIsForestAndInDegree ==
    Finished("is_branching") =>
        IF directed
        THEN n > 0 =>
                /\ Returned("is_forest")
                /\ ret["is_branching"] =
                      Bool(ret["is_forest"] = "True"
                           /\ \A v \in nodes : in_degree(v) <= 1)
        ELSE ret["is_branching"] = NetworkXNotImplemented

C4_Witness ==
    /\ directed
    /\ ret["is_forest"] = "True"
    /\ ret["is_branching"] = "False"

\* C5: on a non-empty directed graph is_arborescence returns is_tree(G)
\* and max in-degree <= 1.
C5_ArborescenceIsTreeAndInDegree ==
    (directed /\ n > 0 /\ Finished("is_arborescence")) =>
        /\ Returned("is_tree")
        /\ ret["is_arborescence"] =
              Bool(ret["is_tree"] = "True" /\ \A v \in nodes : in_degree(v) <= 1)

\* the graph A->C, B->C
C5_Witness ==
    /\ directed
    /\ n = 3
    /\ number_of_edges = 2
    /\ \E v \in nodes : in_degree(v) = 2
    /\ ret["is_tree"] = "True"
    /\ ret["is_arborescence"] = "False"

\* C6: on the same non-empty graph, is_tree True implies is_forest True.
C6_TreeImpliesForest ==
    (ret["is_tree"] = "True" /\ Finished("is_forest")) => ret["is_forest"] = "True"

C6_Witness ==
    /\ n >= 2
    /\ ret["is_tree"] = "True"
    /\ ret["is_forest"] = "True"

\* C7: on the same non-empty directed graph, is_arborescence True implies
\* is_branching True.
C7_ArborescenceImpliesBranching ==
    (ret["is_arborescence"] = "True" /\ Finished("is_branching")) =>
        ret["is_branching"] = "True"

C7_Witness ==
    /\ n >= 2
    /\ ret["is_arborescence"] = "True"
    /\ ret["is_branching"] = "True"

\* C8: on a non-empty graph is_forest is True exactly when the underlying
\* undirected multigraph has no cycle (self-loops, parallel and
\* antiparallel pairs included).
C8_ForestIffAcyclic ==
    (n > 0 /\ Finished("is_forest")) =>
        ret["is_forest"] = Bool(~HasUndirectedCycle)

\* the antiparallel pair A->B, B->A
C8_Witness ==
    /\ directed
    /\ number_of_edges = 2
    /\ \E u \in nodes, v \in nodes : u # v /\ mult[<<u, v>>] = 1 /\ mult[<<v, u>>] = 1
    /\ ret["is_forest"] = "False"

\* C9: when the graph is empty or its edge count is not n - 1, the
\* connectivity query is not made, and is_tree raises or returns False.
C9_ConnectivityOnlyAfterEdgeCount ==
    (n = 0 \/ number_of_edges # n - 1) =>
        /\ ~queried
        /\ ret["is_tree"] \in {"none", "False", NetworkXPointlessConcept}

C9_Witness ==
    /\ n > 0
    /\ number_of_edges # n - 1
    /\ ret["is_tree"] = "False"
    /\ ~queried

\* C10: when is_arborescence is True there is exactly one node of
\* in-degree 0, every other node has in-degree 1, and every node is
\* reachable from that root along directed edges.
C10_ArborescenceHasRoot ==
    ret["is_arborescence"] = "True" =>
        /\ Cardinality(Roots) = 1
        /\ \A v \in nodes \ Roots : in_degree(v) = 1
        /\ \A r \in Roots : Descendants({r}) = nodes

C10_Witness ==
    /\ n >= 3
    /\ ret["is_arborescence"] = "True"
====
